---- MODULE Spec2Model ----
(***************************************************************************)
(* Offline-first synchronisation of expensaur: the app context (AppContext *)
(* provider), the local storage service, the Firestore sync service and    *)
(* the merge utilities of syncUtils.ts.                                     *)
(*                                                                         *)
(* Modelling conventions                                                   *)
(*  - Date.now() is the variable now, a clock shared by the device and by  *)
(*    every writer of the remote store; it never goes back and it may      *)
(*    return the same value to two consecutive calls (Tick is a separate   *)
(*    action).  All Date.now() calls of one handler read the same value.   *)
(*    syncData awaits the remote store and then the storage writes, so the *)
(*    clock has moved on by the time it ends: it stamps with cycle.at and  *)
(*    ends at a later time.  MergeSpec also covers remote records stamped  *)
(*    by a clock that is ahead of the device's.                            *)
(*  - an optional number that is undefined is 0: the code only ever tests  *)
(*    it with !x, which is true of undefined and of 0 alike.               *)
(*  - null settings / a missing settings document is NullSettings.         *)
(*  - a record carries the sync envelope and one data field per kind       *)
(*    (amount, name, theme); createdAt and the other data fields are       *)
(*    copied verbatim by every operation and are left out.                 *)
(*  - a Firestore collection is a set of documents with unique ids.        *)
(***************************************************************************)
EXTENDS Naturals, Integers, Sequences, FiniteSets, TLC

VARIABLES
    expenses,     \* AppContext state: Expense[]
    categories,   \* AppContext state: Category[]
    settings,     \* AppContext state: UserSettings | null
    syncStatus,   \* AppContext state: SyncStatus
    storage,      \* AsyncStorage: the persisted keys
    remote,       \* Firestore: the three collections
    now,          \* Date.now()
    cycle,        \* what the last step did, when it was syncData
    fn            \* what lies outside the app context of the device: a pure
                  \* function and its result (MergeSpec), the awaited
                  \* syncAllData call (AsyncSpec), a second device (PeerSpec)

appVars == <<expenses, categories, settings, syncStatus, storage, remote, now, cycle>>
vars == <<expenses, categories, settings, syncStatus, storage, remote, now, cycle, fn>>

----------------------------------------------------------------------------
(* Bounds *)

MaxTime == 4
MaxPendingSyncItems == 2

ExpenseIds == {"e1", "e2"}
LocalExpenseIds == {"e1"}
NewCategoryIds == {"c1"}
IdOrder == <<"c1", "default-0", "e1", "e2">>
UserId == "demo-user"
AddAmounts == {1}
EditAmounts == {2}
RemoteAmounts == {3}
LocalNames == {"n1"}
LocalThemes == {"dark"}
RemoteThemes == {"system"}
Kinds == {"expenses", "categories", "settings"}
FailModes == {"ok", "read", "write"}

Unset == 0

----------------------------------------------------------------------------
(* Entity model *)

NullSettings == [userId |-> "", theme |-> "", updatedAt |-> 0, lastSyncedAt |-> 0]

InitialSyncStatus ==
    [lastSyncedAt |-> 0, isPending |-> FALSE, hasConflicts |-> FALSE, pendingSyncItems |-> 0]

DEFAULT_CATEGORIES == <<"Food & Dining">>
DefaultIds == <<"default-0">>

CategoryIds == NewCategoryIds \cup {"default-0"}

Ids(items) == {items[i].id : i \in 1..Len(items)}

IdRank(id) == CHOOSE i \in 1..Len(IdOrder) : IdOrder[i] = id

Max(S) == CHOOSE x \in S : \A y \in S : y <= x

----------------------------------------------------------------------------
(* syncUtils.ts *)

\* hasConflict that does not look at the local change
hasConflict_RemoteChangeOnly(localItem, remoteItem) ==
    /\ localItem.lastSyncedAt # Unset
    /\ remoteItem.updatedAt > localItem.lastSyncedAt

hasConflict(localItem, remoteItem) ==
    IF localItem.lastSyncedAt = Unset
    THEN FALSE
    ELSE remoteItem.updatedAt > localItem.lastSyncedAt
         /\ localItem.updatedAt > localItem.lastSyncedAt

\* resolveExpenseConflict that always takes the remote version
resolveExpenseConflict_RemoteWins(localExpense, remoteExpense, t) ==
    [remoteExpense EXCEPT !.lastSyncedAt = t]

\* resolveExpenseConflict with the tie given to the local version
resolveExpenseConflict_TieLocal(localExpense, remoteExpense, t) ==
    IF localExpense.updatedAt >= remoteExpense.updatedAt
    THEN [localExpense EXCEPT !.lastSyncedAt = t]
    ELSE [remoteExpense EXCEPT !.lastSyncedAt = t]

resolveExpenseConflict(localExpense, remoteExpense, t) ==
    IF localExpense.updatedAt > remoteExpense.updatedAt
    THEN [localExpense EXCEPT !.lastSyncedAt = t]
    ELSE [remoteExpense EXCEPT !.lastSyncedAt = t]

resolveCategoryConflict(localCategory, remoteCategory, t) ==
    IF localCategory.updatedAt > remoteCategory.updatedAt
    THEN [localCategory EXCEPT !.lastSyncedAt = t]
    ELSE [remoteCategory EXCEPT !.lastSyncedAt = t]

resolveSettingsConflict(localSettings, remoteSettings, t) ==
    IF localSettings.updatedAt > remoteSettings.updatedAt
    THEN [localSettings EXCEPT !.lastSyncedAt = t]
    ELSE [remoteSettings EXCEPT !.lastSyncedAt = t]

\* the resolver of a kind: the resolveConflict argument of mergeData names it
Resolve(kind, localItem, remoteItem, t) ==
    CASE kind = "expenses" -> resolveExpenseConflict(localItem, remoteItem, t)
      [] kind = "categories" -> resolveCategoryConflict(localItem, remoteItem, t)
      [] OTHER -> resolveSettingsConflict(localItem, remoteItem, t)

\* the filter predicate of getPendingSyncItems, repeated inline by the
\* sync service
needsSync(item) ==
    item.lastSyncedAt = Unset \/ item.updatedAt > item.lastSyncedAt

getPendingSyncItems(items) == SelectSeq(items, needsSync)

\* remoteItemsMap.get(id): the last item set under that id
RemoteGet(remoteItems, id) ==
    remoteItems[Max({i \in 1..Len(remoteItems) : remoteItems[i].id = id})]

\* MergeBoth that stamps the item also when neither side changed
MergeBoth_RestampUnchanged(localItem, remoteItem, resolved, t) ==
    IF hasConflict(localItem, remoteItem)
    THEN resolved
    ELSE IF localItem.lastSyncedAt # Unset
            /\ remoteItem.updatedAt > localItem.lastSyncedAt
    THEN [remoteItem EXCEPT !.lastSyncedAt = t]
    ELSE [localItem EXCEPT !.lastSyncedAt = t]

\* the branches of mergeData for an item that exists locally and remotely;
\* resolved is resolveConflict(localItem, remoteItem)
MergeBoth(localItem, remoteItem, resolved, t) ==
    IF hasConflict(localItem, remoteItem)
    THEN resolved
    ELSE IF localItem.lastSyncedAt # Unset
            /\ remoteItem.updatedAt > localItem.lastSyncedAt
    THEN [remoteItem EXCEPT !.lastSyncedAt = t]
    ELSE IF localItem.lastSyncedAt = Unset
            \/ localItem.updatedAt > localItem.lastSyncedAt
    THEN [localItem EXCEPT !.lastSyncedAt = t]
    ELSE localItem

\* which branch of mergeData handles an item that exists locally and remotely
MergeBranch(localItem, remoteItem) ==
    IF hasConflict(localItem, remoteItem)
    THEN "conflict"
    ELSE IF localItem.lastSyncedAt # Unset
            /\ remoteItem.updatedAt > localItem.lastSyncedAt
    THEN "remote"
    ELSE IF localItem.lastSyncedAt = Unset
            \/ localItem.updatedAt > localItem.lastSyncedAt
    THEN "local"
    ELSE "unchanged"

\* MergeLocalOnly with the item stamped like the items of the other branches
MergeLocalOnly_Stamped(localItem, t) == [localItem EXCEPT !.lastSyncedAt = t]

\* the branch of mergeData for an item that exists only locally
MergeLocalOnly(localItem, t) == localItem

\* the body of localItems.forEach in mergeData
MergeLocalItem(localItem, remoteItems, resolveConflict, t) ==
    IF localItem.id \notin Ids(remoteItems)
    THEN MergeLocalOnly(localItem, t)
    ELSE LET remoteItem == RemoteGet(remoteItems, localItem.id) IN
         MergeBoth(localItem, remoteItem,
                   Resolve(resolveConflict, localItem, remoteItem, t), t)

\* the stamp mergeData puts on a remote item the local list does not hold
AdoptRemote(remoteItem, t) == [remoteItem EXCEPT !.lastSyncedAt = t]

\* RemainingRemote without the deletion of the processed entries
RemainingRemote_KeepProcessed(localItems, remoteItems, t) ==
    [i \in 1..Len(remoteItems) |-> AdoptRemote(remoteItems[i], t)]

\* remoteItemsMap.forEach over the entries that were not deleted
RemainingRemote(localItems, remoteItems, t) ==
    LET rest == SelectSeq(remoteItems, LAMBDA r : r.id \notin Ids(localItems))
    IN  [i \in 1..Len(rest) |-> AdoptRemote(rest[i], t)]

mergeData(localItems, remoteItems, resolveConflict, t) ==
    [i \in 1..Len(localItems) |->
        MergeLocalItem(localItems[i], remoteItems, resolveConflict, t)]
    \o RemainingRemote(localItems, remoteItems, t)

updateSyncStatus(currentStatus, exps, cats, sett, t) ==
    LET pendingSettings == IF sett # NullSettings /\ needsSync(sett) THEN 1 ELSE 0
        pendingSyncItems == Len(getPendingSyncItems(exps))
                            + Len(getPendingSyncItems(cats)) + pendingSettings
    IN  [lastSyncedAt |-> IF pendingSyncItems > 0 THEN currentStatus.lastSyncedAt ELSE t,
         isPending |-> pendingSyncItems > 0,
         hasConflicts |-> currentStatus.hasConflicts,
         pendingSyncItems |-> pendingSyncItems]

----------------------------------------------------------------------------
(* firebaseService: the remote store and the three sync cycles.  A cycle   *)
(* takes the failure injected into it (ok, the remote read rejects, the    *)
(* remote write rejects) and yields what it returns, whether it threw, the *)
(* collection it leaves behind and the batch it submitted.                  *)

\* does doc come before other in orderBy('updatedAt', 'desc')
QueryBefore(doc, other) ==
    \/ doc.updatedAt > other.updatedAt
    \/ doc.updatedAt = other.updatedAt /\ IdRank(doc.id) >= IdRank(other.id)

RECURSIVE OrderByUpdatedAtDesc(_)
OrderByUpdatedAtDesc(docs) ==
    IF docs = {} THEN << >>
    ELSE LET first == CHOOSE d \in docs : \A o \in docs : QueryBefore(d, o)
         IN  <<first>> \o OrderByUpdatedAtDesc(docs \ {first})

\* query(collection, where('userId', '==', userId), orderBy('updatedAt', 'desc'))
QueryByUser(collection, userId) ==
    OrderByUpdatedAtDesc({d \in collection :
        "userId" \in DOMAIN d /\ d.userId = userId})

\* batch.set(doc(db, collection, id), data)
SetDoc(collection, data) == {d \in collection : d.id # data.id} \cup {data}

\* batch.delete(doc(db, collection, id))
DeleteDoc(collection, id) == {d \in collection : d.id # id}

\* the for loop of syncExpenses over pendingExpenses, applied by batch.commit
RECURSIVE CommitExpenseBatch(_, _, _)
CommitExpenseBatch(collection, pendingExpenses, t) ==
    IF pendingExpenses = << >> THEN collection
    ELSE LET expense == Head(pendingExpenses)
             expenseWithSync == [expense EXCEPT !.lastSyncedAt = t]
         IN  CommitExpenseBatch(
                 IF expense.isDeleted
                 THEN DeleteDoc(collection, expense.id)
                 ELSE SetDoc(collection, expenseWithSync),
                 Tail(pendingExpenses), t)

\* the for loop of syncCategories over pendingCategories, applied by batch.commit
RECURSIVE CommitCategoryBatch(_, _, _)
CommitCategoryBatch(collection, pendingCategories, t) ==
    IF pendingCategories = << >> THEN collection
    ELSE LET category == Head(pendingCategories)
             categoryWithSync == [category EXCEPT !.lastSyncedAt = t]
         IN  CommitCategoryBatch(SetDoc(collection, categoryWithSync),
                                 Tail(pendingCategories), t)

\* the filter that selects the batch in syncExpenses and syncCategories
PendingOf(mergedItems) == SelectSeq(mergedItems, needsSync)

syncExpenses(userId, localExpenses, collection, failure, t) ==
    LET remoteExpenses == QueryByUser(collection, userId)
        mergedExpenses == mergeData(localExpenses, remoteExpenses, "expenses", t)
        pendingExpenses == PendingOf(mergedExpenses)
        threw == failure = "read"
                 \/ (failure = "write" /\ Len(pendingExpenses) > 0)
    IN  [threw |-> threw,
         value |-> IF threw THEN << >> ELSE mergedExpenses,
         collection |-> IF threw THEN collection
                        ELSE CommitExpenseBatch(collection, pendingExpenses, t),
         batch |-> IF failure = "read" THEN << >> ELSE pendingExpenses]

syncCategories(userId, localCategories, collection, failure, t) ==
    LET remoteCategories == QueryByUser(collection, userId)
        mergedCategories == mergeData(localCategories, remoteCategories, "categories", t)
        pendingCategories == PendingOf(mergedCategories)
        threw == failure = "read"
                 \/ (failure = "write" /\ Len(pendingCategories) > 0)
    IN  [threw |-> threw,
         value |-> IF threw THEN << >> ELSE mergedCategories,
         collection |-> IF threw THEN collection
                        ELSE CommitCategoryBatch(collection, pendingCategories, t),
         batch |-> IF failure = "read" THEN << >> ELSE pendingCategories]

\* MergeSettings without the conflict branch
MergeSettings_NoConflictBranch(localSettings, remoteSettings, t) ==
    IF localSettings.lastSyncedAt # Unset
       /\ remoteSettings.updatedAt > localSettings.lastSyncedAt
    THEN [remoteSettings EXCEPT !.lastSyncedAt = t]
    ELSE IF localSettings.lastSyncedAt = Unset
            \/ localSettings.updatedAt > localSettings.lastSyncedAt
    THEN [localSettings EXCEPT !.lastSyncedAt = t]
    ELSE localSettings

\* which branch of syncSettings handles the pair
SettingsBranch(localSettings, remoteSettings) ==
    IF localSettings.lastSyncedAt # Unset
       /\ remoteSettings.updatedAt > localSettings.lastSyncedAt
       /\ localSettings.updatedAt > localSettings.lastSyncedAt
    THEN "conflict"
    ELSE IF localSettings.lastSyncedAt # Unset
            /\ remoteSettings.updatedAt > localSettings.lastSyncedAt
    THEN "remote"
    ELSE IF localSettings.lastSyncedAt = Unset
            \/ localSettings.updatedAt > localSettings.lastSyncedAt
    THEN "local"
    ELSE "unchanged"

\* the branches of syncSettings when a remote settings document exists
MergeSettings(localSettings, remoteSettings, t) ==
    IF localSettings.lastSyncedAt # Unset
       /\ remoteSettings.updatedAt > localSettings.lastSyncedAt
       /\ localSettings.updatedAt > localSettings.lastSyncedAt
    THEN resolveSettingsConflict(localSettings, remoteSettings, t)
    ELSE IF localSettings.lastSyncedAt # Unset
            /\ remoteSettings.updatedAt > localSettings.lastSyncedAt
    THEN [remoteSettings EXCEPT !.lastSyncedAt = t]
    ELSE IF localSettings.lastSyncedAt = Unset
            \/ localSettings.updatedAt > localSettings.lastSyncedAt
    THEN [localSettings EXCEPT !.lastSyncedAt = t]
    ELSE localSettings

\* syncSettings that treats a missing remote document like an older one
syncSettings_PushIfPending(localSettings, document, failure, t) ==
    IF failure = "read"
    THEN [threw |-> TRUE, value |-> NullSettings, collection |-> document, batch |-> << >>]
    ELSE LET mergedSettings == IF document = NullSettings THEN localSettings
                               ELSE MergeSettings(localSettings, document, t)
             settingsWithSync == [mergedSettings EXCEPT !.lastSyncedAt = t]
         IN  IF needsSync(mergedSettings)
             THEN IF failure = "write"
                  THEN [threw |-> TRUE, value |-> NullSettings, collection |-> document,
                        batch |-> <<mergedSettings>>]
                  ELSE [threw |-> FALSE, value |-> settingsWithSync,
                        collection |-> settingsWithSync, batch |-> <<mergedSettings>>]
             ELSE [threw |-> FALSE, value |-> mergedSettings,
                   collection |-> document, batch |-> << >>]

\* document is the settings document of the user, NullSettings when
\* settingsSnapshot.exists() is false
syncSettings(localSettings, document, failure, t) ==
    IF failure = "read"
    THEN [threw |-> TRUE, value |-> NullSettings, collection |-> document, batch |-> << >>]
    ELSE IF document = NullSettings
    THEN LET settingsWithSync == [localSettings EXCEPT !.lastSyncedAt = t] IN
         IF failure = "write"
         THEN [threw |-> TRUE, value |-> NullSettings, collection |-> document,
               batch |-> <<localSettings>>]
         ELSE [threw |-> FALSE, value |-> settingsWithSync,
               collection |-> settingsWithSync, batch |-> <<localSettings>>]
    ELSE LET mergedSettings == MergeSettings(localSettings, document, t)
             settingsWithSync == [mergedSettings EXCEPT !.lastSyncedAt = t]
         IN  IF needsSync(mergedSettings)
             THEN IF failure = "write"
                  THEN [threw |-> TRUE, value |-> NullSettings, collection |-> document,
                        batch |-> <<mergedSettings>>]
                  ELSE [threw |-> FALSE, value |-> settingsWithSync,
                        collection |-> settingsWithSync, batch |-> <<mergedSettings>>]
             ELSE [threw |-> FALSE, value |-> mergedSettings,
                   collection |-> document, batch |-> << >>]

\* CountPendingSyncItems with the categories left out of the sum
CountPendingSyncItems_NoCategories(syncedExpenses, syncedCategories, syncedSettings) ==
    Len(SelectSeq(syncedExpenses, needsSync))
    + (IF needsSync(syncedSettings) THEN 1 ELSE 0)

\* the pendingSyncItems expression of syncAllData
CountPendingSyncItems(syncedExpenses, syncedCategories, syncedSettings) ==
    Len(SelectSeq(syncedExpenses, needsSync))
    + Len(SelectSeq(syncedCategories, needsSync))
    + (IF needsSync(syncedSettings) THEN 1 ELSE 0)

\* the isPending expression of syncAllData
AnyPending(syncedExpenses, syncedCategories, syncedSettings) ==
    \/ \E i \in 1..Len(syncedExpenses) : needsSync(syncedExpenses[i])
    \/ \E i \in 1..Len(syncedCategories) : needsSync(syncedCategories[i])
    \/ needsSync(syncedSettings)

\* syncAllData that resolves although one of the three cycles rejected
syncAllData_NeverRejects(userId, localExpenses, localCategories, localSettings, store, failures, t) ==
    LET e == syncExpenses(userId, localExpenses, store.expenses, failures.expenses, t)
        c == syncCategories(userId, localCategories, store.categories, failures.categories, t)
        s == syncSettings(localSettings, store.settings, failures.settings, t)
    IN  [threw |-> FALSE,
         expenses |-> e.value,
         categories |-> c.value,
         settings |-> IF s.threw THEN localSettings ELSE s.value,
         syncStatus |->
            [lastSyncedAt |-> t,
             isPending |-> TRUE,
             hasConflicts |-> FALSE,
             pendingSyncItems |-> 0],
         store |-> [expenses |-> e.collection, categories |-> c.collection,
                    settings |-> s.collection],
         threwKinds |-> {k \in Kinds : CASE k = "expenses" -> e.threw
                                         [] k = "categories" -> c.threw
                                         [] OTHER -> s.threw},
         batch |-> [expenses |-> e.batch, categories |-> c.batch, settings |-> s.batch]]

\* Promise.all over the three cycles: each runs to its end, and the call
\* rejects when any of them rejected
syncAllData(userId, localExpenses, localCategories, localSettings, store, failures, t) ==
    LET e == syncExpenses(userId, localExpenses, store.expenses, failures.expenses, t)
        c == syncCategories(userId, localCategories, store.categories, failures.categories, t)
        s == syncSettings(localSettings, store.settings, failures.settings, t)
        threw == e.threw \/ c.threw \/ s.threw
        pendingSyncItems == CountPendingSyncItems(e.value, c.value, s.value)
    IN  [threw |-> threw,
         expenses |-> e.value,
         categories |-> c.value,
         settings |-> s.value,
         syncStatus |->
            [lastSyncedAt |-> t,
             isPending |-> AnyPending(e.value, c.value, s.value),
             hasConflicts |-> FALSE,
             pendingSyncItems |-> pendingSyncItems],
         store |-> [expenses |-> e.collection, categories |-> c.collection,
                    settings |-> s.collection],
         threwKinds |-> {k \in Kinds : CASE k = "expenses" -> e.threw
                                         [] k = "categories" -> c.threw
                                         [] OTHER -> s.threw},
         batch |-> [expenses |-> e.batch, categories |-> c.batch, settings |-> s.batch]]

----------------------------------------------------------------------------
(* storageService *)

EmptyStorage ==
    [expenses |-> << >>, categories |-> << >>, hasCategories |-> FALSE,
     settings |-> NullSettings, lastSync |-> 0]

\* getCategories: the stored list, or the default categories when the key
\* is missing
getCategories(store, t) ==
    IF ~store.hasCategories
    THEN [i \in 1..Len(DEFAULT_CATEGORIES) |->
            [id |-> DefaultIds[i], name |-> DEFAULT_CATEGORIES[i],
             updatedAt |-> t, lastSyncedAt |-> Unset]]
    ELSE store.categories

\* getUserSettings: the stored settings, or the default settings when the
\* key is missing
getUserSettings(store, userId, t) ==
    IF store.settings = NullSettings
    THEN [userId |-> userId, theme |-> "light", updatedAt |-> t, lastSyncedAt |-> Unset]
    ELSE store.settings

----------------------------------------------------------------------------
(* AppContext *)

NoCycle ==
    [outcome |-> "none",
     at |-> 0,
     pre |-> [expenses |-> << >>, categories |-> << >>, settings |-> NullSettings,
              syncStatus |-> InitialSyncStatus],
     preStore |-> [expenses |-> {}, categories |-> {}, settings |-> NullSettings],
     threwKinds |-> {},
     batch |-> [expenses |-> << >>, categories |-> << >>, settings |-> << >>]]

NoFn ==
    [op |-> "none", kind |-> "", L |-> << >>, R |-> << >>,
     t |-> 0, out |-> << >>, t2 |-> 0, out2 |-> << >>]

\* setSyncStatus(prev => ({...prev, isPending: true, pendingSyncItems: prev.pendingSyncItems + 1}))
BumpPending(prev) ==
    [prev EXCEPT !.isPending = TRUE, !.pendingSyncItems = prev.pendingSyncItems + 1]

\* the counter of pending items has no upper limit in the code
CounterRoom == syncStatus.pendingSyncItems < MaxPendingSyncItems

Init ==
    /\ expenses = << >>
    /\ categories = << >>
    /\ settings = NullSettings
    /\ syncStatus = InitialSyncStatus
    /\ storage = EmptyStorage
    /\ remote = [expenses |-> {}, categories |-> {}, settings |-> NullSettings]
    /\ now = 1
    /\ cycle = NoCycle
    /\ fn = NoFn

Tick ==
    /\ now < MaxTime
    /\ now' = now + 1
    /\ cycle' = NoCycle
    /\ UNCHANGED <<expenses, categories, settings, syncStatus, storage, remote, fn>>

\* the effect that runs once, when the provider mounts: settings is null
\* until it has run and never afterwards
loadData ==
    LET storedCategories == getCategories(storage, now)
        storedSettings == getUserSettings(storage, UserId, now)
    IN  /\ settings = NullSettings
        /\ expenses' = storage.expenses
        /\ categories' = storedCategories
        /\ settings' = storedSettings
        /\ syncStatus' = [lastSyncedAt |-> storage.lastSync, isPending |-> FALSE,
                          hasConflicts |-> FALSE, pendingSyncItems |-> 0]
        /\ storage' = [storage EXCEPT !.categories = storedCategories,
                                      !.hasCategories = TRUE,
                                      !.settings = storedSettings]
        /\ cycle' = NoCycle
        /\ UNCHANGED <<remote, now, fn>>

\* generateId() returns an id no record carries yet
FreshExpenseIds == LocalExpenseIds \ (Ids(expenses) \cup {d.id : d \in remote.expenses})

addExpense(id, amount, categoryId) ==
    LET expense == [id |-> id, userId |-> UserId, amount |-> amount,
                    categoryId |-> categoryId, updatedAt |-> now,
                    lastSyncedAt |-> Unset, isDeleted |-> FALSE]
        updatedExpenses == Append(expenses, expense)
    IN  /\ CounterRoom
        /\ expenses' = updatedExpenses
        /\ storage' = [storage EXCEPT !.expenses = updatedExpenses]
        /\ syncStatus' = BumpPending(syncStatus)
        /\ cycle' = NoCycle
        /\ UNCHANGED <<categories, settings, remote, now, fn>>

\* expenses.findIndex(e => e.id === id), for an id the list holds
FindIndex(items, id) == CHOOSE i \in 1..Len(items) :
    items[i].id = id /\ \A j \in 1..(i - 1) : items[j].id # id

\* the caller passes the record it displays with the amount edited
updateExpense(id, amount) ==
    /\ CounterRoom
    /\ id \in Ids(expenses)
    /\ LET index == FindIndex(expenses, id)
           expense == [expenses[index] EXCEPT !.amount = amount, !.updatedAt = now]
           updatedExpenses == [expenses EXCEPT ![index] = expense]
       IN  /\ expenses' = updatedExpenses
           /\ storage' = [storage EXCEPT !.expenses = updatedExpenses]
    /\ syncStatus' = BumpPending(syncStatus)
    /\ cycle' = NoCycle
    /\ UNCHANGED <<categories, settings, remote, now, fn>>

deleteExpense(expenseId) ==
    /\ CounterRoom
    /\ expenseId \in Ids(expenses)
    /\ LET expense == expenses[FindIndex(expenses, expenseId)]
           deletedExpense == [expense EXCEPT !.isDeleted = TRUE, !.updatedAt = now]
           updatedExpenses == [i \in 1..Len(expenses) |->
                IF expenses[i].id = expenseId THEN deletedExpense ELSE expenses[i]]
       IN  /\ expenses' = updatedExpenses
           /\ storage' = [storage EXCEPT !.expenses = updatedExpenses]
    /\ syncStatus' = BumpPending(syncStatus)
    /\ cycle' = NoCycle
    /\ UNCHANGED <<categories, settings, remote, now, fn>>

addCategory(id, name) ==
    LET category == [id |-> id, name |-> name, updatedAt |-> now, lastSyncedAt |-> Unset]
        updatedCategories == Append(categories, category)
    IN  /\ CounterRoom
        /\ categories' = updatedCategories
        /\ storage' = [storage EXCEPT !.categories = updatedCategories, !.hasCategories = TRUE]
        /\ syncStatus' = BumpPending(syncStatus)
        /\ cycle' = NoCycle
        /\ UNCHANGED <<expenses, settings, remote, now, fn>>

updateCategory(id, name) ==
    /\ CounterRoom
    /\ id \in Ids(categories)
    /\ LET index == FindIndex(categories, id)
           category == [categories[index] EXCEPT !.name = name, !.updatedAt = now]
           updatedCategories == [categories EXCEPT ![index] = category]
       IN  /\ categories' = updatedCategories
           /\ storage' = [storage EXCEPT !.categories = updatedCategories, !.hasCategories = TRUE]
    /\ syncStatus' = BumpPending(syncStatus)
    /\ cycle' = NoCycle
    /\ UNCHANGED <<expenses, settings, remote, now, fn>>

\* deleteCategory without the isInUse test
deleteCategory_Unchecked(categoryId) ==
    LET updatedCategories == SelectSeq(categories, LAMBDA c : c.id # categoryId)
    IN  /\ CounterRoom
        /\ categories' = updatedCategories
        /\ storage' = [storage EXCEPT !.categories = updatedCategories, !.hasCategories = TRUE]
        /\ syncStatus' = BumpPending(syncStatus)
        /\ cycle' = NoCycle
        /\ UNCHANGED <<expenses, settings, remote, now, fn>>

\* a call that finds the category in use alerts and returns: cycle records
\* the refusal
deleteCategory(categoryId) ==
    LET isInUse == \E i \in 1..Len(expenses) :
            expenses[i].categoryId = categoryId /\ ~expenses[i].isDeleted
        updatedCategories == SelectSeq(categories, LAMBDA c : c.id # categoryId)
    IN  IF isInUse
        THEN /\ cycle' = [NoCycle EXCEPT !.outcome = "refused"]
             /\ UNCHANGED <<expenses, categories, settings, syncStatus, storage,
                            remote, now, fn>>
        ELSE /\ CounterRoom
             /\ categories' = updatedCategories
             /\ storage' = [storage EXCEPT !.categories = updatedCategories,
                                           !.hasCategories = TRUE]
             /\ syncStatus' = BumpPending(syncStatus)
             /\ cycle' = NoCycle
             /\ UNCHANGED <<expenses, settings, remote, now, fn>>

updateSettings(theme) ==
    /\ CounterRoom
    /\ settings # NullSettings
    /\ LET newSettings == [settings EXCEPT !.theme = theme, !.updatedAt = now]
       IN  /\ settings' = newSettings
           /\ storage' = [storage EXCEPT !.settings = newSettings]
    /\ syncStatus' = BumpPending(syncStatus)
    /\ cycle' = NoCycle
    /\ UNCHANGED <<expenses, categories, remote, now, fn>>

syncData(failures) ==
    /\ settings # NullSettings
    /\ now < MaxTime
    /\ \E result \in {syncAllData(UserId, expenses, categories, settings, remote, failures, now)} :
           /\ remote' = result.store
           /\ cycle' = [outcome |-> IF result.threw THEN "threw" ELSE "returned",
                        at |-> now,
                        pre |-> [expenses |-> expenses, categories |-> categories,
                                 settings |-> settings, syncStatus |-> syncStatus],
                        preStore |-> remote,
                        threwKinds |-> result.threwKinds,
                        batch |-> result.batch]
           /\ IF result.threw
              THEN UNCHANGED <<expenses, categories, settings, syncStatus, storage>>
              ELSE /\ expenses' = result.expenses
                   /\ categories' = result.categories
                   /\ settings' = result.settings
                   /\ syncStatus' = result.syncStatus
                   /\ storage' = [expenses |-> result.expenses,
                                  categories |-> result.categories,
                                  hasCategories |-> TRUE,
                                  settings |-> result.settings,
                                  lastSync |-> result.syncStatus.lastSyncedAt]
    /\ now' = now + 1
    /\ UNCHANGED fn

----------------------------------------------------------------------------
(* The other writers of the remote store: another device of the same user  *)
(* sets or deletes an expense document, or sets the settings document.     *)

\* ids are unique across devices: another device holds an id only when
\* the id reached the remote store or is unknown to this device
KnownRemotely(id) ==
    \/ id \in {d.id : d \in remote.expenses}
    \/ id \notin Ids(expenses)
    \/ \E i \in 1..Len(expenses) :
          expenses[i].id = id /\ expenses[i].lastSyncedAt # Unset

RemoteSetExpense(id, amount, categoryId) ==
    /\ KnownRemotely(id)
    /\ remote' = [remote EXCEPT !.expenses = SetDoc(@,
            [id |-> id, userId |-> UserId, amount |-> amount, categoryId |-> categoryId,
             updatedAt |-> now, lastSyncedAt |-> now, isDeleted |-> FALSE])]
    /\ cycle' = NoCycle
    /\ UNCHANGED <<expenses, categories, settings, syncStatus, storage, now, fn>>

RemoteDeleteExpense(id) ==
    /\ id \in {d.id : d \in remote.expenses}
    /\ remote' = [remote EXCEPT !.expenses = DeleteDoc(@, id)]
    /\ cycle' = NoCycle
    /\ UNCHANGED <<expenses, categories, settings, syncStatus, storage, now, fn>>

RemoteSetSettings(theme) ==
    /\ remote' = [remote EXCEPT !.settings =
            [userId |-> UserId, theme |-> theme, updatedAt |-> now, lastSyncedAt |-> now]]
    /\ cycle' = NoCycle
    /\ UNCHANGED <<expenses, categories, settings, syncStatus, storage, now, fn>>

NoFailure == [k \in Kinds |-> "ok"]

\* at most one kind fails in a cycle
Failures == {[NoFailure EXCEPT ![k] = m] : k \in Kinds, m \in FailModes}

\* the operations of the device on its own records
LocalStep ==
    \/ Tick
    \/ loadData
    \/ \E id \in FreshExpenseIds, amount \in AddAmounts :
          "default-0" \in Ids(categories) /\ addExpense(id, amount, "default-0")
    \/ \E id \in ExpenseIds, amount \in EditAmounts : updateExpense(id, amount)
    \/ \E id \in ExpenseIds : deleteExpense(id)
    \/ \E id \in CategoryIds : deleteCategory(id)
    \/ \E theme \in LocalThemes : updateSettings(theme)

\* the operations of the device on its categories
CategoryStep ==
    \/ \E id \in NewCategoryIds, name \in LocalNames : addCategory(id, name)
    \/ \E id \in CategoryIds, name \in LocalNames : updateCategory(id, name)

\* Spec: one device alone with the remote store, every remote call succeeds
Next ==
    \/ LocalStep
    \/ CategoryStep
    \/ syncData(NoFailure)

Spec == Init /\ [][Next]_vars

\* FailSpec: the device alone, a remote call of a cycle may reject
FailNext ==
    \/ LocalStep
    \/ \E failures \in Failures : syncData(failures)

FailSpec == Init /\ [][FailNext]_vars

\* RemoteSpec: the device works on an expense that another device created,
\* while other devices keep writing it and the settings
RemoteNext ==
    \/ Tick
    \/ loadData
    \/ \E amount \in EditAmounts : updateExpense("e2", amount)
    \/ deleteExpense("e2")
    \/ \E theme \in LocalThemes : updateSettings(theme)
    \/ \E amount \in RemoteAmounts : RemoteSetExpense("e2", amount, "default-0")
    \/ RemoteDeleteExpense("e2")
    \/ \E theme \in RemoteThemes : RemoteSetSettings(theme)
    \/ syncData(NoFailure)

RemoteSpec == Init /\ [][RemoteNext]_vars

----------------------------------------------------------------------------
(* SettleSpec: the device edits and synchronises until the clock reads     *)
(* MaxTime; from then on no local mutation happens, every remote call      *)
(* succeeds and syncData is called again and again, each cycle fed the     *)
(* snapshot the previous one returned.  The later cycles all read MaxTime  *)
(* from the clock: every updatedAt is at most MaxTime, so a stamp of       *)
(* MaxTime compares with them as any later clock reading would.            *)

\* a further syncData call once the clock reads MaxTime
syncDataAgain ==
    /\ settings # NullSettings
    /\ now = MaxTime
    /\ \E result \in {syncAllData(UserId, expenses, categories, settings, remote, NoFailure, now)} :
           /\ remote' = result.store
           /\ cycle' = [outcome |-> IF result.threw THEN "threw" ELSE "returned",
                        at |-> now,
                        pre |-> [expenses |-> expenses, categories |-> categories,
                                 settings |-> settings, syncStatus |-> syncStatus],
                        preStore |-> remote,
                        threwKinds |-> result.threwKinds,
                        batch |-> result.batch]
           /\ IF result.threw
              THEN UNCHANGED <<expenses, categories, settings, syncStatus, storage>>
              ELSE /\ expenses' = result.expenses
                   /\ categories' = result.categories
                   /\ settings' = result.settings
                   /\ syncStatus' = result.syncStatus
                   /\ storage' = [expenses |-> result.expenses,
                                  categories |-> result.categories,
                                  hasCategories |-> TRUE,
                                  settings |-> result.settings,
                                  lastSync |-> result.syncStatus.lastSyncedAt]
    /\ UNCHANGED <<now, fn>>

\* the time between two syncData calls
Pause ==
    /\ now = MaxTime
    /\ cycle # NoCycle
    /\ cycle' = NoCycle
    /\ UNCHANGED <<expenses, categories, settings, syncStatus, storage, remote, now, fn>>

SettleNext ==
    \/ now < MaxTime /\ LocalStep
    \/ now < MaxTime /\ CategoryStep
    \/ syncData(NoFailure)
    \/ syncDataAgain
    \/ Pause

\* the cycles are repeated: a call that can be made is made
SettleSpec ==
    Init /\ [][SettleNext]_vars /\ WF_vars(syncDataAgain) /\ WF_vars(Pause)

----------------------------------------------------------------------------
(* AsyncSpec: syncData is an async function.  It passes the lists of the   *)
(* render it was called in to syncAllData and awaits the result; the       *)
(* handlers of the other screens can run while it waits.  When the promise *)
(* resolves it sets the state to the result and saves the result.  fn      *)
(* holds the call that is awaited: the lists it was given and its result.  *)

\* syncData up to the await of syncAllData: the remote store is read and
\* written while the call is awaited
syncDataCall ==
    /\ settings # NullSettings
    /\ fn.op = "none"
    /\ now < MaxTime
    /\ \E result \in {syncAllData(UserId, expenses, categories, settings, remote, NoFailure, now)} :
           /\ remote' = result.store
           /\ fn' = [NoFn EXCEPT !.op = "syncing", !.t = now, !.L = expenses,
                                 !.R = <<[expenses |-> expenses, categories |-> categories,
                                          settings |-> settings, syncStatus |-> syncStatus],
                                         remote>>,
                                 !.out = <<result>>]
    /\ now' = now + 1
    /\ cycle' = NoCycle
    /\ UNCHANGED <<expenses, categories, settings, syncStatus, storage>>

\* syncData after the await: the four setters and the four saves
syncDataResume ==
    /\ fn.op = "syncing"
    /\ LET result == fn.out[1] IN
           /\ expenses' = result.expenses
           /\ categories' = result.categories
           /\ settings' = result.settings
           /\ syncStatus' = result.syncStatus
           /\ storage' = [expenses |-> result.expenses,
                          categories |-> result.categories,
                          hasCategories |-> TRUE,
                          settings |-> result.settings,
                          lastSync |-> result.syncStatus.lastSyncedAt]
           /\ cycle' = [outcome |-> "returned",
                        at |-> fn.t,
                        pre |-> fn.R[1],
                        preStore |-> fn.R[2],
                        threwKinds |-> result.threwKinds,
                        batch |-> result.batch]
    /\ fn' = NoFn
    /\ UNCHANGED <<remote, now>>

AsyncNext ==
    \/ Tick
    \/ loadData
    \/ \E id \in FreshExpenseIds, amount \in AddAmounts :
          "default-0" \in Ids(categories) /\ addExpense(id, amount, "default-0")
    \/ \E id \in ExpenseIds, amount \in EditAmounts : updateExpense(id, amount)
    \/ \E id \in ExpenseIds : deleteExpense(id)
    \/ syncDataCall
    \/ syncDataResume

AsyncSpec == Init /\ [][AsyncNext]_vars

----------------------------------------------------------------------------
(* PeerSpec: a second device of the same user runs the same code against   *)
(* the same remote store.  fn.L is the expense list of that device, fn.R   *)
(* the list it passed to its last cycle and fn.t the time of that cycle.   *)
(* Both devices read the same clock.  Of the cycle of the second device    *)
(* only syncExpenses is modelled; its categories and settings are left     *)
(* out.  Once the clock reads MaxTime the cycles of both devices still     *)
(* run, with the stamp MaxTime (see SettleSpec).                            *)

\* deleteExpense on the second device
PeerDeleteExpense(expenseId) ==
    /\ expenseId \in Ids(fn.L)
    /\ LET expense == fn.L[FindIndex(fn.L, expenseId)]
           deletedExpense == [expense EXCEPT !.isDeleted = TRUE, !.updatedAt = now]
           updatedExpenses == [i \in 1..Len(fn.L) |->
                IF fn.L[i].id = expenseId THEN deletedExpense ELSE fn.L[i]]
       IN  fn' = [fn EXCEPT !.op = "edited", !.L = updatedExpenses]
    /\ cycle' = NoCycle
    /\ UNCHANGED <<expenses, categories, settings, syncStatus, storage, remote, now>>

\* syncData on the second device, every remote call succeeding
PeerSyncData ==
    /\ \E result \in {syncExpenses(UserId, fn.L, remote.expenses, "ok", now)} :
           /\ remote' = [remote EXCEPT !.expenses = result.collection]
           /\ fn' = [fn EXCEPT !.op = "synced", !.L = result.value, !.R = fn.L, !.t = now]
    /\ now' = IF now < MaxTime THEN now + 1 ELSE now
    /\ cycle' = NoCycle
    /\ UNCHANGED <<expenses, categories, settings, syncStatus, storage>>

PeerNext ==
    \/ Tick
    \/ loadData
    \/ \E id \in FreshExpenseIds, amount \in AddAmounts :
          "default-0" \in Ids(categories) /\ addExpense(id, amount, "default-0")
    \/ syncData(NoFailure)
    \/ syncDataAgain
    \/ \E id \in ExpenseIds : PeerDeleteExpense(id)
    \/ PeerSyncData

PeerSpec == Init /\ [][PeerNext]_vars

----------------------------------------------------------------------------
(* MergeSpec: the pure functions of syncUtils.ts on inputs drawn from      *)
(* bounded sets.  A collection holds at most one record per id.  The       *)
(* timestamps of a local record were read from the clock of the device, so *)
(* none lies after now; a remote record was stamped by the device that     *)
(* wrote it, whose clock may be ahead.                                     *)

LocalExpenseAt(id, u, l, deleted) ==
    [id |-> id, userId |-> UserId, amount |-> 1, categoryId |-> "default-0",
     updatedAt |-> u, lastSyncedAt |-> l, isDeleted |-> deleted]

RemoteExpenseAt(id, u) ==
    [id |-> id, userId |-> UserId, amount |-> 3, categoryId |-> "default-0",
     updatedAt |-> u, lastSyncedAt |-> u, isDeleted |-> FALSE]

LocalRecords(id, t) ==
    {LocalExpenseAt(id, u, l, d) : u \in 1..t, l \in 0..t, d \in BOOLEAN}

RemoteRecords(id) == {RemoteExpenseAt(id, u) : u \in 1..MaxTime}

\* the local lists: e1, e2, or both
LocalCollections(t) ==
    {<< >>}
    \cup {<<a>> : a \in LocalRecords("e1", t) \cup LocalRecords("e2", t)}
    \cup {<<a, b>> : a \in LocalRecords("e1", t), b \in LocalRecords("e2", t)}

\* the remote lists, as the query returns them
RemoteCollections ==
    {QueryByUser(docs, UserId) :
        docs \in {a \cup b : a \in {{}} \cup {{r} : r \in RemoteRecords("e1")},
                             b \in {{}} \cup {{r} : r \in RemoteRecords("e2")}}}

\* one local and one remote version of the same record, of each kind
PairOf(kind, u, l, ru) ==
    CASE kind = "expenses" ->
            <<LocalExpenseAt("e1", u, l, FALSE), RemoteExpenseAt("e1", ru)>>
      [] kind = "categories" ->
            <<[id |-> "c1", name |-> "n1", updatedAt |-> u, lastSyncedAt |-> l],
              [id |-> "c1", name |-> "n2", updatedAt |-> ru, lastSyncedAt |-> ru]>>
      [] OTHER ->
            <<[userId |-> UserId, theme |-> "dark", updatedAt |-> u, lastSyncedAt |-> l],
              [userId |-> UserId, theme |-> "system", updatedAt |-> ru, lastSyncedAt |-> ru]>>

\* doc.data() of a document that holds no id field: the loop of syncExpenses
\* pushes it as it is, and its id reads as undefined
NoId == ""

MalformedRecords == {[r EXCEPT !.id = NoId] : r \in RemoteRecords("e1")}

\* the remote lists that hold a record without id, alone or before a
\* well-formed record
MalformedCollections ==
    {<<m>> : m \in MalformedRecords}
    \cup {<<m, r>> : m \in MalformedRecords, r \in RemoteRecords("e1")}

FnInputs(t) ==
    {[NoFn EXCEPT !.op = "input", !.kind = "expenses", !.L = l, !.R = r] :
        l \in LocalCollections(t), r \in RemoteCollections}
    \cup
    {[NoFn EXCEPT !.op = "input", !.kind = "expenses", !.L = l, !.R = r] :
        l \in {<< >>} \cup {<<a>> : a \in LocalRecords("e1", t)},
        r \in MalformedCollections}
    \cup
    {[NoFn EXCEPT !.op = "pair", !.kind = k,
                  !.L = <<PairOf(k, u, l, ru)[1]>>, !.R = <<PairOf(k, u, l, ru)[2]>>] :
        k \in Kinds, u \in 1..t, l \in 0..t, ru \in 1..MaxTime}

MergeInit ==
    /\ expenses = << >>
    /\ categories = << >>
    /\ settings = NullSettings
    /\ syncStatus = InitialSyncStatus
    /\ storage = EmptyStorage
    /\ remote = [expenses |-> {}, categories |-> {}, settings |-> NullSettings]
    /\ cycle = NoCycle
    /\ now \in 1..MaxTime
    /\ fn \in FnInputs(now)

\* the clock moves on between two calls
FnTick ==
    /\ fn.op \in {"merged", "resolved"}
    /\ now < MaxTime
    /\ now' = now + 1
    /\ UNCHANGED <<expenses, categories, settings, syncStatus, storage, remote, cycle, fn>>

MergeOnce ==
    /\ fn.op = "input"
    /\ fn' = [fn EXCEPT !.op = "merged", !.t = now,
                        !.out = mergeData(fn.L, fn.R, "expenses", now)]
    /\ UNCHANGED appVars

\* the merged list is merged again with the same remote list
MergeAgain ==
    /\ fn.op = "merged"
    /\ fn' = [fn EXCEPT !.op = "merged2", !.t2 = now,
                        !.out2 = mergeData(fn.out, fn.R, "expenses", now)]
    /\ UNCHANGED appVars

ResolveOnce ==
    /\ fn.op = "pair"
    /\ fn' = [fn EXCEPT !.op = "resolved", !.t = now,
                        !.out = <<Resolve(fn.kind, fn.L[1], fn.R[1], now)>>]
    /\ UNCHANGED appVars

\* the same pair is resolved a second time
ResolveAgain ==
    /\ fn.op = "resolved"
    /\ fn' = [fn EXCEPT !.op = "resolved2", !.t2 = now,
                        !.out2 = <<Resolve(fn.kind, fn.L[1], fn.R[1], now)>>]
    /\ UNCHANGED appVars

\* syncSettings on the local settings of the pair, with no remote document
PushNewSettings ==
    /\ fn.op = "pair"
    /\ fn.kind = "settings"
    /\ \E result \in {syncSettings(fn.L[1], NullSettings, "ok", now)} :
           fn' = [fn EXCEPT !.op = "settled", !.t = now,
                            !.out = <<result.value, result.collection>>]
    /\ UNCHANGED appVars

\* a settings record has no id field: item.id reads as undefined, which is
\* the key of the record in both maps of mergeData
AsItem(sett) == [f \in DOMAIN sett \cup {"id"} |-> IF f = "id" THEN NoId ELSE sett[f]]

AsSettings(item) == [f \in DOMAIN item \ {"id"} |-> item[f]]

\* the pair of settings merged by syncSettings, and by mergeData as two
\* lists of one record
MergeSettingsTwice ==
    /\ fn.op = "pair"
    /\ fn.kind = "settings"
    /\ \E merged \in {mergeData(<<AsItem(fn.L[1])>>, <<AsItem(fn.R[1])>>, "settings", now)} :
           fn' = [fn EXCEPT !.op = "settingsMerged", !.t = now,
                            !.out = <<MergeSettings(fn.L[1], fn.R[1], now)>>,
                            !.out2 = [i \in 1..Len(merged) |-> AsSettings(merged[i])]]
    /\ UNCHANGED appVars

MergeNext ==
    \/ FnTick
    \/ MergeOnce
    \/ MergeAgain
    \/ ResolveOnce
    \/ ResolveAgain
    \/ PushNewSettings
    \/ MergeSettingsTwice

MergeSpec == MergeInit /\ [][MergeNext]_vars

----------------------------------------------------------------------------
(* Properties *)

ItemsOf(items) == {items[i] : i \in 1..Len(items)}

\* the last step was a syncData whose syncAllData call returned
Returned == cycle.outcome = "returned"

\* a record has local changes not yet confirmed remotely
Pending(r) == r.lastSyncedAt = 0 \/ r.updatedAt > r.lastSyncedAt

Synced(r) == r.lastSyncedAt # 0 /\ r.lastSyncedAt >= r.updatedAt

\* a record without its sync stamp
Data(r) == [r EXCEPT !.lastSyncedAt = 0]

\* C1: after a cycle whose remote read and batch write succeeded, every
\* record of the returned snapshot has lastSyncedAt set and at least
\* updatedAt, and every record of the batch carries the push timestamp in
\* the returned snapshot.
C1_ReturnedSnapshotSynced ==
    Returned =>
        /\ \A r \in ItemsOf(expenses) : Synced(r)
        /\ \A r \in ItemsOf(categories) : Synced(r)
        /\ Synced(settings)
        /\ \A b \in ItemsOf(cycle.batch.expenses) :
              \E r \in ItemsOf(expenses) : r.id = b.id /\ r.lastSyncedAt = cycle.at
        /\ \A b \in ItemsOf(cycle.batch.categories) :
              \E r \in ItemsOf(categories) : r.id = b.id /\ r.lastSyncedAt = cycle.at

\* C2: a locally tombstoned, pending expense is deleted remotely by the
\* next successful cycle (the batch holds it as a delete and the remote
\* store holds no document of that id afterwards), and the returned
\* snapshot still holds the record with isDeleted = true.
C2_TombstonePropagated ==
    Returned =>
        \A e \in ItemsOf(cycle.pre.expenses) :
            (e.isDeleted /\ Pending(e)) =>
                /\ \E b \in ItemsOf(cycle.batch.expenses) : b.id = e.id /\ b.isDeleted
                /\ \A d \in remote.expenses : d.id # e.id
                /\ \E r \in ItemsOf(expenses) : r.id = e.id /\ r.isDeleted

\* C3: after a cycle that returns isPending = false, every id held both in
\* the returned snapshot and in the remote store has the same updatedAt
\* and the same data on both sides.
C3_RemoteConverged ==
    (Returned /\ ~syncStatus.isPending) =>
        /\ \A r \in ItemsOf(expenses) : \A d \in remote.expenses :
              d.id = r.id =>
                 /\ d.updatedAt = r.updatedAt
                 /\ d.amount = r.amount
                 /\ d.categoryId = r.categoryId
        /\ \A r \in ItemsOf(categories) : \A d \in remote.categories :
              d.id = r.id => (d.updatedAt = r.updatedAt /\ d.name = r.name)
        /\ remote.settings # NullSettings =>
              /\ remote.settings.updatedAt = settings.updatedAt
              /\ remote.settings.theme = settings.theme

\* C4: when the remote read or write of one kind fails, syncAllData still
\* returns: the call reports isPending = true, the failed kind keeps its
\* pre-cycle records and the other kinds hold their merged snapshots.
C4_FailureIsolated ==
    (cycle.outcome # "none" /\ cycle.threwKinds # {}) =>
        /\ cycle.outcome = "returned"
        /\ syncStatus.isPending
        /\ ("expenses" \in cycle.threwKinds => expenses = cycle.pre.expenses)
        /\ ("categories" \in cycle.threwKinds => categories = cycle.pre.categories)
        /\ ("settings" \in cycle.threwKinds => settings = cycle.pre.settings)
        /\ ("settings" \notin cycle.threwKinds => Synced(settings))

\* C5: merging the merged list again with the same remote list changes
\* nothing, lastSyncedAt included.
C5_MergeIdempotent ==
    fn.op = "merged2" => fn.out2 = fn.out

Tombstoned(id) == \E r \in ItemsOf(expenses) : r.id = id /\ r.isDeleted

\* C6: an expense that is tombstoned in the local snapshot stays
\* tombstoned in every later local snapshot.
C6_NeverUntombstoned ==
    [][\A id \in ExpenseIds : Tombstoned(id) => Tombstoned(id)']_vars

\* C7: the returned status carries the time of the cycle only when nothing
\* is pending; otherwise it keeps the lastSyncedAt of the previous status.
C7_LastSyncedAtRetained ==
    Returned =>
        syncStatus.lastSyncedAt =
            IF syncStatus.isPending THEN cycle.pre.syncStatus.lastSyncedAt ELSE cycle.at

\* C8: the returned pendingSyncItems is the number of pending returned
\* expenses and categories, plus one for pending settings, and isPending
\* is true exactly when that number is positive.
C8_PendingCount ==
    Returned =>
        /\ syncStatus.pendingSyncItems =
              Cardinality({i \in 1..Len(expenses) : Pending(expenses[i])})
              + Cardinality({i \in 1..Len(categories) : Pending(categories[i])})
              + Cardinality({x \in {settings} : Pending(x)})
        /\ syncStatus.isPending <=> syncStatus.pendingSyncItems > 0

\* C8 witness: a cycle returned with a pending expense and a pending category
C8_Witness ==
    /\ Returned
    /\ syncStatus.pendingSyncItems = 2
    /\ \E r \in ItemsOf(expenses) : Pending(r)
    /\ \E r \in ItemsOf(categories) : Pending(r)

\* C9: each resolver returns the local version when local.updatedAt is
\* greater than remote.updatedAt and the remote version otherwise; the
\* result has the winner's fields apart from lastSyncedAt, and a second
\* resolution of the same pair has the same winner.
C9_LastWriterWins ==
    fn.op \in {"resolved", "resolved2"} =>
        LET localItem == fn.L[1]
            remoteItem == fn.R[1]
            winner == IF localItem.updatedAt > remoteItem.updatedAt
                      THEN localItem ELSE remoteItem
        IN  /\ Data(fn.out[1]) = Data(winner)
            /\ fn.op = "resolved2" => Data(fn.out2[1]) = Data(fn.out[1])

\* C9 witness: a tie of an expense pair, resolved twice at different times
C9_Witness ==
    /\ fn.op = "resolved2"
    /\ fn.kind = "expenses"
    /\ fn.L[1].updatedAt = fn.R[1].updatedAt
    /\ fn.t2 > fn.t
    /\ fn.out[1].amount = fn.R[1].amount

\* a local record that was never synced and has no remote record among
\* those the cycle read
LocalOnlyNew(r, remoteItems) == r.lastSyncedAt = 0 /\ r.id \notin Ids(remoteItems)

\* C10: a never-synced local record without a remote record is returned
\* by the cycle with every field unchanged and is part of the batch the
\* cycle sends to the remote store.
C10_LocalOnlyKeptAndPushed ==
    Returned =>
        /\ \A i \in 1..Len(cycle.pre.expenses) :
              LocalOnlyNew(cycle.pre.expenses[i],
                           QueryByUser(cycle.preStore.expenses, UserId)) =>
                 /\ expenses[i] = cycle.pre.expenses[i]
                 /\ cycle.pre.expenses[i] \in ItemsOf(cycle.batch.expenses)
        /\ \A i \in 1..Len(cycle.pre.categories) :
              LocalOnlyNew(cycle.pre.categories[i],
                           QueryByUser(cycle.preStore.categories, UserId)) =>
                 /\ categories[i] = cycle.pre.categories[i]
                 /\ cycle.pre.categories[i] \in ItemsOf(cycle.batch.categories)

\* C10 witness: a cycle returned for a list that held a new expense
C10_Witness ==
    /\ Returned
    /\ \E i \in 1..Len(cycle.pre.expenses) :
          /\ LocalOnlyNew(cycle.pre.expenses[i],
                          QueryByUser(cycle.preStore.expenses, UserId))
          /\ expenses[i].lastSyncedAt = 0
          /\ expenses[i].id \in {d.id : d \in remote.expenses}

\* C11: a remote record whose id the local list does not hold is in the
\* output of mergeData exactly once, with the remote fields and lastSyncedAt
\* set to the time of the merge, and is not among the records the cycle
\* selects for the remote write.
C11_RemoteOnlyAdopted ==
    fn.op = "merged" =>
        \A j \in 1..Len(fn.R) :
            fn.R[j].id \notin Ids(fn.L) =>
                /\ Cardinality({i \in 1..Len(fn.out) : fn.out[i].id = fn.R[j].id}) = 1
                /\ [fn.R[j] EXCEPT !.lastSyncedAt = fn.t] \in ItemsOf(fn.out)
                /\ \A b \in ItemsOf(PendingOf(fn.out)) : b.id # fn.R[j].id

\* the batch write of a kind rejected in the cycle c
WriteFailed(kind, c) == kind \in c.threwKinds /\ c.batch[kind] # << >>

\* C12: when the batch write of expenses or of categories rejects, the
\* records of that kind are the same after the cycle as before it, in memory
\* and in storage, with the same lastSyncedAt values: what was pending is
\* still pending.
C12_FailedWriteMarksNothing ==
    [][/\ WriteFailed("expenses", cycle') =>
             /\ expenses' = expenses
             /\ storage'.expenses = storage.expenses
       /\ WriteFailed("categories", cycle') =>
             /\ categories' = categories
             /\ storage'.categories = storage.categories]_vars

\* C12 witness: the expense batch was rejected and the expense is still pending
C12_Witness ==
    /\ WriteFailed("expenses", cycle)
    /\ \E r \in ItemsOf(expenses) : Pending(r) /\ r \in ItemsOf(storage.expenses)

\* no local mutation happens any more and the cycles can run
Settling == now = MaxTime /\ settings # NullSettings

\* C13: once no local mutation happens and every remote call succeeds,
\* repeated cycles eventually return isPending = false with
\* pendingSyncItems = 0.
C13_RepeatedSyncSettles ==
    Settling ~> (Returned /\ ~syncStatus.isPending /\ syncStatus.pendingSyncItems = 0)

\* C14: when no remote settings document exists, syncSettings writes the
\* local settings to the remote store whatever their updatedAt and
\* lastSyncedAt are, and returns them with lastSyncedAt set to the time of
\* the call.
C14_NewSettingsPushed ==
    fn.op = "settled" =>
        LET settingsWithSync == [fn.L[1] EXCEPT !.lastSyncedAt = fn.t]
        IN  fn.out = <<settingsWithSync, settingsWithSync>>

\* C14 witness: local settings that were not pending have been written
C14_Witness ==
    /\ fn.op = "settled"
    /\ ~Pending(fn.L[1])
    /\ fn.L[1].lastSyncedAt < fn.t
    /\ fn.out[2].theme = fn.L[1].theme

\* a remote record that lacks a required envelope field
Malformed(r) == r.id = NoId \/ r.updatedAt = Unset

\* C15: a remote record without id or without updatedAt is left out of the
\* merge: the merged snapshot holds no record with its fields, and the other
\* records, local and remote, are still merged.
C15_MalformedSkipped ==
    fn.op = "merged" =>
        /\ \A j \in 1..Len(fn.R) :
              Malformed(fn.R[j]) =>
                  \A o \in ItemsOf(fn.out) : Data(o) # Data(fn.R[j])
        /\ \A r \in ItemsOf(fn.L) \cup ItemsOf(fn.R) :
              ~Malformed(r) => r.id \in Ids(fn.out)

\* the step is the call of a handler other than syncData
LocalMutation == cycle'.outcome \notin {"returned", "threw"}

\* C16: a local mutation of an existing record leaves the record's updatedAt
\* strictly greater than it was before the mutation.
C16_UpdatedAtGrows ==
    [][LocalMutation =>
          /\ \A r \in ItemsOf(expenses) : \A q \in ItemsOf(expenses') :
                (q.id = r.id /\ q # r) => q.updatedAt > r.updatedAt
          /\ \A r \in ItemsOf(categories) : \A q \in ItemsOf(categories') :
                (q.id = r.id /\ q # r) => q.updatedAt > r.updatedAt
          /\ (settings # NullSettings /\ settings' # settings) =>
                settings'.updatedAt > settings.updatedAt]_vars

\* a non-deleted expense references the category
InUse(categoryId) ==
    \E e \in ItemsOf(expenses) : e.categoryId = categoryId /\ ~e.isDeleted

\* C17: a deleteCategory call on a category that a non-deleted expense
\* references changes neither the categories, nor the stored categories,
\* nor the sync status; a category leaves the list only when no non-deleted
\* expense references it.
C17_DeleteCategoryRefused ==
    [][/\ cycle'.outcome = "refused" =>
             /\ categories' = categories
             /\ storage'.categories = storage.categories
             /\ syncStatus' = syncStatus
       /\ \A c \in Ids(categories) \ Ids(categories') : ~InUse(c)]_vars

\* C17 witness: a call was refused for a category in use, which is still
\* in the list and in storage
C17_Witness ==
    /\ cycle.outcome = "refused"
    /\ \E c \in Ids(categories) : InUse(c) /\ c \in Ids(storage.categories)

\* the local record is pending, the remote record of the same id is not
\* newer than the local last sync point, and no conflict is detected
LocalEditOnly(localItem, remoteItem) ==
    /\ ~hasConflict(localItem, remoteItem)
    /\ Pending(localItem)
    /\ ~(localItem.lastSyncedAt # Unset /\ remoteItem.updatedAt > localItem.lastSyncedAt)

\* C18: a pending local record whose remote copy is not newer than the last
\* sync point, with no conflict, is kept by the merge and written to the
\* remote store in the same cycle, so that the remote copy equals the local
\* edit after the cycle; the same for the settings when a remote settings
\* document exists.
C18_LocalEditPushed ==
    Returned =>
        /\ \A i \in 1..Len(cycle.pre.expenses) :
              \A d \in cycle.preStore.expenses :
                 LET e == cycle.pre.expenses[i] IN
                 (d.id = e.id /\ d.userId = UserId /\ LocalEditOnly(e, d)) =>
                     /\ Data(expenses[i]) = Data(e)
                     /\ \E b \in ItemsOf(cycle.batch.expenses) : b.id = e.id
                     /\ ~e.isDeleted =>
                           \E r \in remote.expenses : r.id = e.id /\ Data(r) = Data(e)
        /\ (cycle.preStore.settings # NullSettings
              /\ LocalEditOnly(cycle.pre.settings, cycle.preStore.settings)) =>
                 /\ Data(settings) = Data(cycle.pre.settings)
                 /\ cycle.batch.settings # << >>
                 /\ Data(remote.settings) = Data(cycle.pre.settings)

\* C19: when a conflict is detected for an expense held locally and
\* remotely, the merged snapshot holds the version with the greater
\* updatedAt (the remote one on a tie) with lastSyncedAt set to the time of
\* the cycle, and the cycle writes that record to the remote store.
C19_ConflictResolvedAndPushed ==
    Returned =>
        \A i \in 1..Len(cycle.pre.expenses) :
            \A d \in cycle.preStore.expenses :
                LET e == cycle.pre.expenses[i]
                    winner == IF e.updatedAt > d.updatedAt THEN e ELSE d
                IN  (d.id = e.id /\ d.userId = UserId /\ hasConflict(e, d)) =>
                        /\ expenses[i] = [winner EXCEPT !.lastSyncedAt = cycle.at]
                        /\ \E b \in ItemsOf(cycle.batch.expenses) : b.id = e.id

\* since the last sync point of the local record, only the remote side changed
OnlyRemoteChanged(localItem, remoteItem) ==
    /\ localItem.lastSyncedAt # Unset
    /\ remoteItem.updatedAt > localItem.lastSyncedAt
    /\ localItem.updatedAt <= localItem.lastSyncedAt

\* since the last sync point of the local record, only the local side changed
OnlyLocalChanged(localItem, remoteItem) ==
    /\ localItem.lastSyncedAt # Unset
    /\ localItem.updatedAt > localItem.lastSyncedAt
    /\ remoteItem.updatedAt <= localItem.lastSyncedAt

\* C20: hasConflict is true exactly when the local lastSyncedAt is set and
\* both updatedAt values are greater than it; when only one side changed
\* since the last sync point, the merged value is the changed side.
C20_ConflictDetection ==
    fn.op = "merged" =>
        \A i \in 1..Len(fn.L) : \A j \in 1..Len(fn.R) :
            fn.L[i].id = fn.R[j].id =>
                /\ hasConflict(fn.L[i], fn.R[j]) <=>
                      /\ fn.L[i].lastSyncedAt # 0
                      /\ fn.R[j].updatedAt > fn.L[i].lastSyncedAt
                      /\ fn.L[i].updatedAt > fn.L[i].lastSyncedAt
                /\ OnlyRemoteChanged(fn.L[i], fn.R[j]) => Data(fn.out[i]) = Data(fn.R[j])
                /\ OnlyLocalChanged(fn.L[i], fn.R[j]) => Data(fn.out[i]) = Data(fn.L[i])

\* C20 witness: a merge of two pairs at once, one changed remotely only and
\* one changed locally only
C20_Witness ==
    /\ fn.op = "merged"
    /\ Len(fn.L) = 2
    /\ \E i, k \in 1..Len(fn.L) : \E j, m \in 1..Len(fn.R) :
          /\ fn.L[i].id = fn.R[j].id
          /\ OnlyRemoteChanged(fn.L[i], fn.R[j])
          /\ fn.out[i].amount = fn.R[j].amount
          /\ fn.L[k].id = fn.R[m].id
          /\ OnlyLocalChanged(fn.L[k], fn.R[m])
          /\ fn.out[k].amount = fn.L[k].amount

\* the remote record changed after the last sync point of the local record
\* and the local record did not
AdoptsRemote(localItem, remoteItem) ==
    /\ ~hasConflict(localItem, remoteItem)
    /\ localItem.lastSyncedAt # Unset
    /\ remoteItem.updatedAt > localItem.lastSyncedAt

\* C21: for a record held locally and remotely with no conflict, when the
\* remote updatedAt is greater than the local lastSyncedAt the merged list
\* holds the remote version with lastSyncedAt set to the time of the merge,
\* and the record is not among those the cycle selects for the remote write.
C21_RemoteNewerAdopted ==
    fn.op = "merged" =>
        \A i \in 1..Len(fn.L) : \A j \in 1..Len(fn.R) :
            (fn.L[i].id = fn.R[j].id /\ AdoptsRemote(fn.L[i], fn.R[j])) =>
                /\ fn.out[i] = [fn.R[j] EXCEPT !.lastSyncedAt = fn.t]
                /\ \A b \in ItemsOf(PendingOf(fn.out)) : b.id # fn.R[j].id

\* neither side changed since the last sync point of the local record
NeitherChanged(localItem, remoteItem) ==
    /\ localItem.updatedAt <= localItem.lastSyncedAt
    /\ remoteItem.updatedAt <= localItem.lastSyncedAt

\* C22: for a record held locally and remotely where neither updatedAt is
\* greater than the local lastSyncedAt, mergeData returns the local record
\* with every field unchanged, lastSyncedAt included, and the record is not
\* among those the cycle selects for the remote write.
C22_UnchangedKept ==
    fn.op = "merged" =>
        \A i \in 1..Len(fn.L) : \A j \in 1..Len(fn.R) :
            (fn.L[i].id = fn.R[j].id /\ NeitherChanged(fn.L[i], fn.R[j])) =>
                /\ fn.out[i] = fn.L[i]
                /\ \A b \in ItemsOf(PendingOf(fn.out)) : b.id # fn.L[i].id

\* C22 witness: a merge, later than the last sync point, of an unchanged
\* pair whose remote copy holds other data
C22_Witness ==
    /\ fn.op = "merged"
    /\ \E i \in 1..Len(fn.L) : \E j \in 1..Len(fn.R) :
          /\ fn.L[i].id = fn.R[j].id
          /\ NeitherChanged(fn.L[i], fn.R[j])
          /\ fn.L[i].lastSyncedAt < fn.t
          /\ fn.R[j].amount # fn.L[i].amount
          /\ fn.out[i].lastSyncedAt = fn.L[i].lastSyncedAt

\* the remote copy is not newer than the last sync point of the local
\* record, or the local record was never synced
StaleRemote(localItem, remoteItem) ==
    \/ localItem.lastSyncedAt = Unset
    \/ remoteItem.updatedAt <= localItem.lastSyncedAt

\* C23: a local tombstone whose remote copy is stale stays a tombstone in
\* the merged list, and in the list that a later merge of the merged list
\* with the same remote copy returns.
C23_TombstoneNotResurrected ==
    fn.op \in {"merged", "merged2"} =>
        \A i \in 1..Len(fn.L) : \A j \in 1..Len(fn.R) :
            (/\ fn.L[i].id = fn.R[j].id
             /\ fn.L[i].isDeleted
             /\ StaleRemote(fn.L[i], fn.R[j])) =>
                /\ fn.out[i].isDeleted
                /\ fn.op = "merged2" => fn.out2[i].isDeleted

\* the expenses that a handler added or changed after syncData passed its
\* list to the call that is awaited
MutatedInFlight == {r \in ItemsOf(expenses) : r \notin ItemsOf(fn.L)}

\* C24: an expense added, edited or tombstoned while syncData awaits
\* syncAllData is still held, with that edit, by the in-memory list and by
\* the stored list once syncData has applied the result.
C24_InFlightMutationKept ==
    [][(fn.op = "syncing" /\ fn'.op = "none") =>
          \A r \in MutatedInFlight :
              /\ \E q \in ItemsOf(expenses') : Data(q) = Data(r)
              /\ \E q \in ItemsOf(storage'.expenses) : Data(q) = Data(r)]_vars

\* C25: when the second device ran a successful cycle on a list that held
\* a tombstone of a previously synced expense, and this device, which held
\* that expense synced and not deleted, then ran a successful cycle, the
\* list of this device holds no live record of that expense.
C25_DeletionReachesPeer ==
    (Returned /\ fn.op = "synced") =>
        \A a \in ItemsOf(fn.R) : \A e \in ItemsOf(cycle.pre.expenses) :
            (/\ a.id = e.id
             /\ a.isDeleted /\ a.lastSyncedAt # Unset
             /\ Synced(e) /\ ~e.isDeleted) =>
                \A r \in ItemsOf(expenses) : r.id = e.id => r.isDeleted

\* C26: for local and remote lists with unique ids, the output of mergeData
\* holds exactly one record for every id of the two lists and no record of
\* another id.
C26_MergeKeepsEveryId ==
    fn.op = "merged" =>
        /\ Ids(fn.out) = Ids(fn.L) \cup Ids(fn.R)
        /\ Len(fn.out) = Cardinality(Ids(fn.L) \cup Ids(fn.R))

\* C26 witness: a merge of a list that shares an id with the remote list,
\* which holds another id too
C26_Witness ==
    /\ fn.op = "merged"
    /\ Ids(fn.L) = {"e1"}
    /\ Ids(fn.R) = {"e1", "e2"}
    /\ Len(fn.out) = 2

\* C27: for every record of the local list, the record that mergeData
\* returns for it has an updatedAt at least as great as the local one,
\* whichever branch handled the record.
C27_MergeNeverOlder ==
    fn.op = "merged" =>
        \A i \in 1..Len(fn.L) :
            /\ fn.out[i].id = fn.L[i].id
            /\ fn.out[i].updatedAt >= fn.L[i].updatedAt

\* C27 witness: a merge of two records, one in conflict with an older remote
\* version and one replaced by a newer remote version
C27_Witness ==
    /\ fn.op = "merged"
    /\ \E i, k \in 1..Len(fn.L) : \E j, m \in 1..Len(fn.R) :
          /\ fn.L[i].id = fn.R[j].id
          /\ hasConflict(fn.L[i], fn.R[j])
          /\ fn.L[i].updatedAt > fn.R[j].updatedAt
          /\ fn.out[i].updatedAt = fn.L[i].updatedAt
          /\ fn.L[k].id = fn.R[m].id
          /\ AdoptsRemote(fn.L[k], fn.R[m])
          /\ fn.out[k].updatedAt > fn.L[k].updatedAt

\* the number of records of the app context with changes not yet confirmed
\* remotely
PendingRecords ==
    Cardinality({i \in 1..Len(expenses) : Pending(expenses[i])})
    + Cardinality({i \in 1..Len(categories) : Pending(categories[i])})
    + (IF settings # NullSettings /\ Pending(settings) THEN 1 ELSE 0)

\* C28: in every state of the app context, syncStatus.pendingSyncItems is
\* the number of pending expenses and categories, plus one when the
\* settings are pending.
C28_PendingCountExact ==
    syncStatus.pendingSyncItems = PendingRecords

\* C29: when a remote settings document exists, syncSettings computes the
\* merged settings that mergeData computes from the lists [localSettings]
\* and [remoteSettings] with resolveSettingsConflict: the same branch
\* handles the pair and the result has the same fields.
C29_SettingsMergeAgrees ==
    fn.op = "settingsMerged" =>
        /\ fn.out2 = fn.out
        /\ SettingsBranch(fn.L[1], fn.R[1]) = MergeBranch(fn.L[1], fn.R[1])

\* C29 witness: a conflict that the local settings win, merged both ways
C29_Witness ==
    /\ fn.op = "settingsMerged"
    /\ SettingsBranch(fn.L[1], fn.R[1]) = "conflict"
    /\ fn.L[1].updatedAt > fn.R[1].updatedAt
    /\ fn.out[1].theme = fn.L[1].theme
    /\ fn.out2[1].lastSyncedAt = fn.t

\* C30: a category document that a successful cycle wrote to the remote
\* store is among the documents that the query of syncCategories returns
\* for the user afterwards, so that the next cycle finds the category on
\* both sides.
C30_PushedCategoryQueried ==
    Returned =>
        \A d \in remote.categories :
            (\E b \in ItemsOf(cycle.batch.categories) : b.id = d.id) =>
                d.id \in Ids(QueryByUser(remote.categories, UserId))

====
